---------------------------- MODULE Spec2Model ----------------------------
(***************************************************************************)
(* A model of sqlfluff's templaters (src/sqlfluff/templaters.py): the      *)
(* templater registry, the three templater classes (raw, python, jinja),   *)
(* the context built by get_context and the jinja templater's process.     *)
(*                                                                         *)
(* Python values are modelled as records [t, s]: t is the Python type and  *)
(* s the textual form of the value.  Python dicts are functions over the   *)
(* set of their keys; text is a sequence of one-character strings.         *)
(***************************************************************************)
EXTENDS Integers, Sequences, FiniteSets, TLC

VARIABLES
    lookup,     \* _templater_lookup: the registry, a sequence of [name, cls] in insertion order
    regLog,     \* history: every class passed to register_templater, in call order
    sel,        \* the latest templater_selector call: its arguments and its outcome
    prev,       \* the templater on the left of a comparison, prev == self
    eqRes,      \* what that comparison returned
    self,       \* the templater instance a method is called on
    config,     \* the config argument of get_context / process
    in_str,     \* the in_str argument of process, as a sequence of template chunks
    pc,         \* "ready" before the call under study, "done" after it
    live,       \* what get_context returned
    result      \* what process returned or raised

vars == <<lookup, regLog, sel, prev, eqRes, self, config, in_str, pc, live, result>>

(***************************************************************************)
(* Bounds of the model.                                                    *)
(***************************************************************************)
\* register_templater calls made after the module was imported
MaxRegisterCalls == 2
\* chunks (text runs, expressions, tags) in a template
MaxChunks == 2

(***************************************************************************)
(* Python dicts.                                                           *)
(***************************************************************************)
EmptyDict == <<>>

\* dict.update: the keys of d2 win
DictUpdate(d1, d2) ==
    [k \in (DOMAIN d1) \cup (DOMAIN d2) |-> IF k \in DOMAIN d2 THEN d2[k] ELSE d1[k]]

\* every dict over a subset of keys with values in vals
DictsOver(keys, vals) == UNION {[ks -> vals] : ks \in SUBSET keys}

StrVal(s) == [t |-> "str", s |-> s]
IntVal(s) == [t |-> "int", s |-> s]

(***************************************************************************)
(* The templater classes.  mro lists the class and its bases, which is     *)
(* what isinstance consults.  MyRawTemplater and DbtTemplater stand for    *)
(* classes a plugin registers with register_templater.                     *)
(***************************************************************************)
RawTemplateInterface ==
    [id |-> "RawTemplateInterface", name |-> "raw",
     mro |-> <<"RawTemplateInterface">>]

PythonTemplateInterface ==
    [id |-> "PythonTemplateInterface", name |-> "python",
     mro |-> <<"PythonTemplateInterface", "RawTemplateInterface">>]

JinjaTemplateInterface ==
    [id |-> "JinjaTemplateInterface", name |-> "jinja",
     mro |-> <<"JinjaTemplateInterface", "PythonTemplateInterface", "RawTemplateInterface">>]

MyRawTemplater ==
    [id |-> "MyRawTemplater", name |-> "raw",
     mro |-> <<"MyRawTemplater", "RawTemplateInterface">>]

DbtTemplater ==
    [id |-> "DbtTemplater", name |-> "dbt",
     mro |-> <<"DbtTemplater", "JinjaTemplateInterface", "PythonTemplateInterface",
               "RawTemplateInterface">>]

BuiltinClasses == {RawTemplateInterface, PythonTemplateInterface, JinjaTemplateInterface}

PluginClasses == {MyRawTemplater, DbtTemplater}

Classes == BuiltinClasses \cup PluginClasses

ClassOf(id) == CHOOSE c \in Classes : c.id = id

Range(s) == {s[i] : i \in DOMAIN s}

\* the default context PythonTemplateInterface.__init__ sets
DefaultContext == [test_value |-> StrVal("__test__")]

\* an object without the attributes PythonTemplateInterface.__init__ sets
NoAttrs == [has |-> FALSE, default_context |-> EmptyDict, override_context |-> EmptyDict]

\* RawTemplateInterface.__init__(kwargs): accepts and ignores every option
RawInit(kwargs) == NoAttrs

\* PythonTemplateInterface.__init__(override_context=None, **kwargs)
PythonInit(kwargs) ==
    [has |-> TRUE,
     default_context |-> DefaultContext,
     override_context |->
        IF "override_context" \in DOMAIN kwargs /\ kwargs["override_context"] # EmptyDict
        THEN kwargs["override_context"] ELSE EmptyDict]

\* cls(kwargs): the first __init__ along the mro
Construct(cls, kwargs) ==
    [cls |-> cls.id,
     attrs |-> IF "PythonTemplateInterface" \in Range(cls.mro)
               THEN PythonInit(kwargs) ELSE RawInit(kwargs)]

\* isinstance(obj, cls)
IsInstance(obj, clsId) == clsId \in Range(ClassOf(obj.cls).mro)

\* RawTemplateInterface.__eq__, inherited by every templater
TemplaterEq(slf, other) == IsInstance(other, slf.cls)

\* the comparison without the reflected call: always the left operand's __eq__
RichCompareEqMutant(v, w) == TemplaterEq(v, w)

\* v == w as Python evaluates it: when the class of w is a proper subclass
\* of the class of v, the __eq__ of w is called first, with v as other;
\* __eq__ never returns NotImplemented, so the first answer is the result
RichCompareEq(v, w) ==
    IF v.cls # w.cls /\ IsInstance(w, v.cls)
    THEN TemplaterEq(w, v)
    ELSE TemplaterEq(v, w)

(***************************************************************************)
(* The registry.                                                           *)
(***************************************************************************)
RegistryKeys(reg) == [i \in DOMAIN reg |-> reg[i].name]

HasKey(reg, n) == \E i \in DOMAIN reg : reg[i].name = n

GetItem(reg, n) == reg[CHOOSE i \in DOMAIN reg : reg[i].name = n].cls

\* a plausible slip: keep the first registration of a name
RegisterTemplaterMutant(reg, cls) ==
    IF HasKey(reg, cls.name) THEN reg
    ELSE Append(reg, [name |-> cls.name, cls |-> cls.id])

\* register_templater: _templater_lookup[cls.name] = cls (a dict keeps the
\* position of a key it already holds)
RegisterTemplater(reg, cls) ==
    IF HasKey(reg, cls.name)
    THEN [i \in DOMAIN reg |->
            IF reg[i].name = cls.name THEN [name |-> cls.name, cls |-> cls.id] ELSE reg[i]]
    ELSE Append(reg, [name |-> cls.name, cls |-> cls.id])

\* the registry once the module is imported: the three decorated classes
ImportedRegistry ==
    RegisterTemplater(
        RegisterTemplater(
            RegisterTemplater(<<>>, RawTemplateInterface),
            PythonTemplateInterface),
        JinjaTemplateInterface)

\* the s argument: None, or a string
NoneArg == [isNone |-> TRUE, v |-> ""]
StrArg(v) == [isNone |-> FALSE, v |-> v]

\* s or 'jinja'
EffectiveName(s) == IF s.isNone \/ s.v = "" THEN "jinja" ELSE s.v

NoInstance == [cls |-> "", attrs |-> NoAttrs]

\* templater_selector(s, kwargs): what it returns or raises, and the registry after it
TemplaterSelector(reg, s, kwargs) ==
    LET n == EffectiveName(s) IN
    IF HasKey(reg, n)
    THEN [raised |-> "", inst |-> Construct(ClassOf(GetItem(reg, n)), kwargs),
          requested |-> n, names |-> <<>>, registry |-> reg]
    ELSE [raised |-> "ValueError", inst |-> NoInstance,
          requested |-> n, names |-> RegistryKeys(reg), registry |-> reg]


(***************************************************************************)
(* Configuration.  A FluffConfig is modelled by its sections: a function   *)
(* from section paths to section contents.  get_section returns None for   *)
(* a path the config does not hold.  A "context" section is a dict of      *)
(* values; a "macros" section is the sequence of its values (template      *)
(* strings) in the dict's order.                                           *)
(***************************************************************************)
NoConfig == [given |-> FALSE, sections |-> EmptyDict]

FluffConfig(sections) == [given |-> TRUE, sections |-> sections]

\* self.templater_selector, a class attribute of RawTemplateInterface
templater_selector == "templater"

\* self.name
NameOf(slf) == ClassOf(slf.cls).name

\* config.get_section(path) or {}   (empty is the empty dict / no values)
GetSectionOrEmpty(cfg, path) ==
    IF path \in DOMAIN cfg.sections THEN cfg.sections[path] ELSE EmptyDict

(***************************************************************************)
(* infer_type.  ast.literal_eval of a string, on the strings the model     *)
(* uses: an integer literal, a quoted string, a list and True parse as     *)
(* literals; a bare word raises ValueError and an incomplete expression    *)
(* SyntaxError.  literal_eval of a value that is not a string raises       *)
(* ValueError.                                                             *)
(***************************************************************************)
LiteralEval(v) ==
    IF v.t # "str" THEN [raised |-> "ValueError", val |-> v]
    ELSE CASE v.s = "3"      -> [raised |-> "", val |-> IntVal("3")]
           [] v.s = "0"      -> [raised |-> "", val |-> IntVal("0")]
           [] v.s = "'ab'"   -> [raised |-> "", val |-> StrVal("ab")]
           [] v.s = "[1, 2]" -> [raised |-> "", val |-> [t |-> "list", s |-> "[1, 2]"]]
           [] v.s = "True"   -> [raised |-> "", val |-> [t |-> "bool", s |-> "True"]]
           [] v.s = "1 +"    -> [raised |-> "SyntaxError", val |-> v]
           [] OTHER          -> [raised |-> "ValueError", val |-> v]

\* try: return ast.literal_eval(s)  except (SyntaxError, ValueError): return s
infer_type(v) ==
    LET r == LiteralEval(v) IN
    IF r.raised = "" THEN r.val ELSE v

\* PythonTemplateInterface.get_context
get_context(slf, cfg) ==
    LET loaded_context ==
            IF cfg.given
            THEN GetSectionOrEmpty(cfg, <<templater_selector, NameOf(slf), "context">>)
            ELSE EmptyDict
        merged == DictUpdate(DictUpdate(slf.attrs.default_context, loaded_context),
                             slf.attrs.override_context)
    IN  [k \in DOMAIN merged |->
            IF k \in DOMAIN loaded_context THEN infer_type(merged[k]) ELSE merged[k]]

(***************************************************************************)
(* Template text.  A template is written as a sequence of chunks; its      *)
(* source text (in_str) is the concatenation of the chunks' texts, and     *)
(* the engine's parser recovers the chunks from that text.                 *)
(*                                                                         *)
(*   nl    a line break in the template data                               *)
(*   lit   the template data "food "                                       *)
(*   var   {{ a }}                                                         *)
(*   call  {{ a('q') }}                                                    *)
(*   cond  {{ a if b else c }}                                             *)
(*   set   {% set a = 1 %}                                                 *)
(*   for   {% for a in b %}{{ c }}{% endfor %}                             *)
(*   bad   {% endif %}        (a block tag that closes nothing)            *)
(***************************************************************************)
Names == {"foo", "x", "m"}

\* the characters of the strings the model uses; any other is a single character
StrChars(s) ==
    CASE s = "foo"         -> <<"f", "o", "o">>
      [] s = "ab"          -> <<"a", "b">>
      [] s = "hi q"        -> <<"h", "i", " ", "q">>
      [] s = "__test__"    -> <<"_", "_", "t", "e", "s", "t", "_", "_">>
      [] s = "[1, 2]"      -> <<"[", "1", ",", " ", "2", "]">>
      [] s = "True"        -> <<"T", "r", "u", "e">>
      [] s = ""            -> <<>>
      [] OTHER             -> <<s>>

Chunk(k, a, b, c) == [k |-> k, a |-> a, b |-> b, c |-> c]

Lit(t) == [text |-> t, name |-> "", ctx |-> ""]
Nm(n, ctx) == [text |-> StrChars(n), name |-> n, ctx |-> ctx]

\* the pieces of a chunk's text, the identifiers apart
ChunkPieces(c) ==
    CASE c.k = "nl"   -> << Lit(<<"\n">>) >>
      [] c.k = "lit"  -> << Lit(<<"f", "o", "o", "d", " ">>) >>
      [] c.k = "var"  -> << Lit(<<"{", "{", " ">>), Nm(c.a, "load"), Lit(<<" ", "}", "}">>) >>
      [] c.k = "call" -> << Lit(<<"{", "{", " ">>), Nm(c.a, "load"),
                            Lit(<<"(", "'", "q", "'", ")", " ", "}", "}">>) >>
      [] c.k = "cond" -> << Lit(<<"{", "{", " ">>), Nm(c.a, "load"),
                            Lit(<<" ", "i", "f", " ">>), Nm(c.b, "load"),
                            Lit(<<" ", "e", "l", "s", "e", " ">>), Nm(c.c, "load"),
                            Lit(<<" ", "}", "}">>) >>
      [] c.k = "set"  -> << Lit(<<"{", "%", " ", "s", "e", "t", " ">>), Nm(c.a, "store"),
                            Lit(<<" ", "=", " ", "1", " ", "%", "}">>) >>
      [] c.k = "for"  -> << Lit(<<"{", "%", " ", "f", "o", "r", " ">>), Nm(c.a, "store"),
                            Lit(<<" ", "i", "n", " ">>), Nm(c.b, "load"),
                            Lit(<<" ", "%", "}", "{", "{", " ">>), Nm(c.c, "load"),
                            Lit(<<" ", "}", "}", "{", "%", " ", "e", "n", "d", "f", "o", "r",
                                  " ", "%", "}">>) >>
      [] c.k = "bad"  -> << Lit(<<"{", "%", " ", "e", "n", "d", "i", "f", " ", "%", "}">>) >>

RECURSIVE PiecesText(_, _)
\* the text of pieces 1..n
PiecesText(ps, n) == IF n = 0 THEN <<>> ELSE PiecesText(ps, n - 1) \o ps[n].text

ChunkText(c) == PiecesText(ChunkPieces(c), Len(ChunkPieces(c)))

RECURSIVE SourceUpTo(_, _)
\* the source text of chunks 1..n
SourceUpTo(chunks, n) == IF n = 0 THEN <<>> ELSE SourceUpTo(chunks, n - 1) \o ChunkText(chunks[n])

\* in_str as the characters process receives
SourceText(chunks) == SourceUpTo(chunks, Len(chunks))

(***************************************************************************)
(* String operations.                                                      *)
(***************************************************************************)
\* the 1-based indexes of the line breaks of raw
Breaks(raw) == {i \in DOMAIN raw : raw[i] = "\n"}

\* raw.split('\n')
SplitLines(raw) ==
    LET br == Breaks(raw)
        n  == Cardinality(br) + 1
        \* the index just before line k starts
        before(k) == IF k = 1 THEN 0
                     ELSE CHOOSE i \in br : Cardinality({j \in br : j < i}) = k - 2
        \* the index just after line k ends
        after(k)  == IF k = n THEN Len(raw) + 1
                     ELSE CHOOSE i \in br : Cardinality({j \in br : j < i}) = k - 1
    IN  [k \in 1..n |-> SubSeq(raw, before(k) + 1, after(k) - 1)]

\* whether sub occurs in line at 0-based offset i
OccursAt(line, sub, i) ==
    /\ i + Len(sub) <= Len(line)
    /\ \A j \in 1..Len(sub) : line[i + j] = sub[j]

\* whether sub occurs in line (when it does not, str.index raises ValueError)
Contains(line, sub) == \E i \in 0..Len(line) : OccursAt(line, sub, i)

\* line.index(sub): the 0-based offset of the first occurrence
StrIndex(line, sub) ==
    CHOOSE i \in 0..Len(line) :
        OccursAt(line, sub, i) /\ \A j \in 0..(i - 1) : ~OccursAt(line, sub, j)

RECURSIVE SumLens(_, _)
\* sum(len(raw_line) + 1 for raw_line in lines[:n])
SumLens(lines, n) == IF n = 0 THEN 0 ELSE SumLens(lines, n - 1) + Len(lines[n]) + 1

(***************************************************************************)
(* The syntax tree env.parse builds.  A node's children are listed in the  *)
(* order of iter_child_nodes, which is the order of the node class's       *)
(* fields: CondExpr(test, expr1, expr2), Assign(target, node),             *)
(* For(target, iter, body, ...), Call(node, args, ...).  Every node        *)
(* carries lineno, as the engine's nodes do; col is the column at which    *)
(* the node's token really starts, which the engine does not record and    *)
(* process never reads.                                                    *)
(***************************************************************************)
NoValue == [t |-> "none", s |-> ""]

Node(type, children) ==
    [type |-> type, name |-> "", ctx |-> "", lineno |-> 0, col |-> 0,
     data |-> <<>>, value |-> NoValue, children |-> children]

\* template data, with its text
DataNode(text) == [Node("TemplateData", <<>>) EXCEPT !.data = text]

\* a literal, with its value
ConstNode(v) == [Node("Const", <<>>) EXCEPT !.value = v]

\* the 1-based line of the character at 0-based offset off of raw
LineNoAt(raw, off) == 1 + Cardinality({i \in Breaks(raw) : i <= off})

\* the 1-based column of the character at 0-based offset off of raw
ColAt(raw, off) ==
    LET before == {i \in Breaks(raw) : i <= off}
        last   == IF before = {} THEN 0 ELSE CHOOSE i \in before : \A j \in before : j <= i
    IN  off + 1 - last

\* the Name node of piece j of chunk i
NameAt(chunks, i, j) ==
    LET ps  == ChunkPieces(chunks[i])
        off == Len(SourceUpTo(chunks, i - 1)) + Len(PiecesText(ps, j - 1))
        raw == SourceText(chunks)
    IN  [type |-> "Name", name |-> ps[j].name, ctx |-> ps[j].ctx,
         lineno |-> LineNoAt(raw, off), col |-> ColAt(raw, off),
         data |-> <<>>, value |-> NoValue, children |-> <<>>]

\* chunks that the parser collects into an Output node
IsOutputKind(c) == c.k \in {"nl", "lit", "var", "call", "cond"}

\* the expression of an output chunk
ChunkExpr(chunks, i) ==
    LET c == chunks[i] IN
    CASE c.k \in {"nl", "lit"} -> DataNode(ChunkText(c))
      [] c.k = "var"  -> NameAt(chunks, i, 2)
      [] c.k = "call" -> Node("Call", << NameAt(chunks, i, 2), ConstNode(StrVal("q")) >>)
      [] c.k = "cond" -> Node("CondExpr", << NameAt(chunks, i, 4), NameAt(chunks, i, 2),
                                             NameAt(chunks, i, 6) >>)

\* the statement of a tag chunk
ChunkStmt(chunks, i) ==
    LET c == chunks[i] IN
    CASE c.k = "set" -> Node("Assign", << NameAt(chunks, i, 2), ConstNode(IntVal("1")) >>)
      [] c.k = "for" -> Node("For", << NameAt(chunks, i, 2), NameAt(chunks, i, 4),
                                       Node("Output", << NameAt(chunks, i, 6) >>) >>)

RECURSIVE TemplateBody(_, _)
\* the body of the Template node for chunks 1..n: adjacent data and
\* expressions share one Output node
TemplateBody(chunks, n) ==
    IF n = 0 THEN <<>>
    ELSE LET b == TemplateBody(chunks, n - 1) IN
         IF IsOutputKind(chunks[n])
         THEN IF n > 1 /\ IsOutputKind(chunks[n - 1])
              THEN [b EXCEPT ![Len(b)] =
                        Node("Output", b[Len(b)].children \o << ChunkExpr(chunks, n) >>)]
              ELSE Append(b, Node("Output", << ChunkExpr(chunks, n) >>))
         ELSE Append(b, ChunkStmt(chunks, n))

\* whether the text is a well-formed template
WellFormed(chunks) == \A i \in DOMAIN chunks : chunks[i].k # "bad"

\* env.from_string(in_str) / env.parse(in_str): the tree, or TemplateSyntaxError
Parse(chunks) ==
    IF WellFormed(chunks)
    THEN [raised |-> "", tree |-> Node("Template", TemplateBody(chunks, Len(chunks)))]
    ELSE [raised |-> "TemplateSyntaxError", tree |-> Node("Template", <<>>)]

RECURSIVE NameLeaves(_)
RECURSIVE NameLeavesOf(_, _)
\* the Name nodes of a tree in traversal order
NameLeaves(tree) ==
    IF tree.type = "Name" THEN <<tree>> ELSE NameLeavesOf(tree.children, Len(tree.children))

NameLeavesOf(children, n) ==
    IF n = 0 THEN <<>> ELSE NameLeavesOf(children, n - 1) \o NameLeaves(children[n])

(***************************************************************************)
(* jinja2.meta.find_undeclared_variables.  The root frame's symbols are    *)
(* analysed over the root-level statements in order: an expression loads   *)
(* its names, an assignment visits its value and then stores its target,   *)
(* a for block contributes its iterable only.  A name whose first root     *)
(* level use is a load must be resolved from the context.  The body of a   *)
(* for block is a frame of its own: its target is a parameter, and a name  *)
(* loaded there that the root frame does not know must be resolved too.    *)
(* Names found in the environment's globals are not reported.              *)
(***************************************************************************)
\* what the root frame's visitor sees of one root-level statement, in order
RootEventsOf(stmt) ==
    CASE stmt.type = "Output" -> NameLeaves(stmt)
      [] stmt.type = "Assign" -> NameLeaves(stmt.children[2]) \o NameLeaves(stmt.children[1])
      [] stmt.type = "For"    -> NameLeaves(stmt.children[2])

RECURSIVE RootEvents(_, _)
RootEvents(body, n) ==
    IF n = 0 THEN <<>> ELSE RootEvents(body, n - 1) \o RootEventsOf(body[n])

\* how the root frame holds name n: "load" (resolved from the context),
\* "store" (a template variable) or "" (unknown to the root frame)
RootKind(tree, n) ==
    LET ev == RootEvents(tree.children, Len(tree.children))
        at == {i \in DOMAIN ev : ev[i].name = n}
    IN  IF at = {} THEN ""
        ELSE ev[CHOOSE i \in at : \A j \in at : i <= j].ctx

\* the names the frames of the for blocks must resolve
InnerResolves(tree) ==
    {n \in Names :
        \E k \in DOMAIN tree.children :
            /\ tree.children[k].type = "For"
            /\ \E leaf \in Range(NameLeaves(tree.children[k].children[3])) : leaf.name = n
            /\ tree.children[k].children[1].name # n
            /\ RootKind(tree, n) = ""}

FindUndeclaredVariables(tree, globals) ==
    ({n \in Names : RootKind(tree, n) = "load"} \cup InnerResolves(tree)) \ DOMAIN globals

(***************************************************************************)
(* Violations: SQLTemplaterError objects.  pos is <<>> for no position     *)
(* and <<marker>> for FilePositionMarker(None, line_no, pos, charpos).     *)
(***************************************************************************)
NoCause == [exc |-> "", about |-> ""]

UndefinedViolation(name, line_no, pos, charpos) ==
    [kind |-> "undefined", name |-> name, cause |-> NoCause,
     pos |-> << [line |-> line_no, col |-> pos, charpos |-> charpos] >>]

FatalViolation(cause) ==
    [kind |-> "fatal", name |-> "", cause |-> cause, pos |-> <<>>]

\* sum(len(raw_line) + 1 for raw_line in raw.split('\n')[:line_no - 1]) + pos
Charpos(raw, line_no, pos) == SumLens(SplitLines(raw), line_no - 1) + pos

\* what _crawl_tree yields for one matching Name node
ViolationAt(node, raw) ==
    LET line_no == node.lineno
        line    == SplitLines(raw)[line_no]
        pos     == StrIndex(line, StrChars(node.name)) + 1
    IN  UndefinedViolation(node.name, line_no, pos, Charpos(raw, line_no, pos))

RECURSIVE CrawlChildrenMutant(_, _, _, _)
RECURSIVE CrawlTreeMutant(_, _, _)
\* a plausible slip: stop at the first match in a subtree
CrawlChildrenMutant(children, n, variable_names, raw) ==
    IF n = 0 THEN <<>>
    ELSE LET sofar == CrawlChildrenMutant(children, n - 1, variable_names, raw) IN
         IF sofar # <<>> THEN sofar
         ELSE CrawlTreeMutant(children[n], variable_names, raw)

CrawlTreeMutant(tree, variable_names, raw) ==
    CrawlChildrenMutant(tree.children, Len(tree.children), variable_names, raw)
    \o (IF tree.type = "Name" /\ tree.name \in variable_names
        THEN << ViolationAt(tree, raw) >> ELSE <<>>)

RECURSIVE CrawlChildren(_, _, _, _)
RECURSIVE CrawlTree(_, _, _)
\* for elem in tree.iter_child_nodes(): yield from _crawl_tree(elem, ...)
CrawlChildren(children, n, variable_names, raw) ==
    IF n = 0 THEN <<>>
    ELSE CrawlChildren(children, n - 1, variable_names, raw)
         \o CrawlTree(children[n], variable_names, raw)

\* process._crawl_tree: the children first, then (the loop's else) the node itself
CrawlTree(tree, variable_names, raw) ==
    CrawlChildren(tree.children, Len(tree.children), variable_names, raw)
    \o (IF tree.type = "Name" /\ tree.name \in variable_names
        THEN << ViolationAt(tree, raw) >> ELSE <<>>)

\* line.index(tree.name) raises ValueError when the line does not hold the name
CrawlRaises(tree, variable_names, raw) ==
    \E leaf \in Range(NameLeaves(tree)) :
        /\ leaf.name \in variable_names
        /\ ~Contains(SplitLines(raw)[leaf.lineno], StrChars(leaf.name))

(***************************************************************************)
(* Macros from the configuration.  A macros section holds template         *)
(* strings; the model knows three:                                         *)
(*   greet   {% macro m(n) %}hi {{ n }}{% endmacro %}                      *)
(*   setfoo  {% set foo = 1 %}          (exports a value, not a macro)     *)
(*   broken  {% macro m(n) %}hi         (the macro block is not closed)    *)
(***************************************************************************)
MacroVal(n) == [t |-> "macro", s |-> n]

\* env.from_string(template).module.__dict__: the names the template exports
MacroTemplateModule(template) ==
    CASE template = "greet"  -> [raised |-> "", exports |-> [m |-> MacroVal("m")]]
      [] template = "setfoo" -> [raised |-> "", exports |-> [foo |-> IntVal("1")]]
      [] template = "broken" -> [raised |-> "TemplateSyntaxError", exports |-> EmptyDict]

\* the expansion of macro n called with the string arg
MacroExpand(n, arg) == IF n = "m" /\ arg = "q" THEN "hi q" ELSE ""

\* _extract_macros_from_template: the exported names that are Macro objects
ExtractMacrosFromTemplate(template) ==
    LET mod == MacroTemplateModule(template)
        ks  == {k \in DOMAIN mod.exports : mod.exports[k].t = "macro"}
    IN  [raised |-> mod.raised, context |-> [k \in ks |-> mod.exports[k]]]

RECURSIVE ExtractMacrosUpTo(_, _)
\* the loop of _extract_macros_from_config over the first n values
ExtractMacrosUpTo(values, n) ==
    IF n = 0 THEN [raised |-> "", context |-> EmptyDict]
    ELSE LET before == ExtractMacrosUpTo(values, n - 1)
             this   == ExtractMacrosFromTemplate(values[n])
         IN  IF before.raised # "" THEN before
             ELSE IF this.raised # "" THEN [raised |-> this.raised, context |-> EmptyDict]
             ELSE [raised |-> "", context |-> DictUpdate(before.context, this.context)]

\* a plausible slip: the loop returns after the first value
ExtractMacrosFromConfigMutant(slf, cfg) ==
    LET loaded_context ==
            IF cfg.given
            THEN GetSectionOrEmpty(cfg, <<templater_selector, NameOf(slf), "macros">>)
            ELSE <<>>
    IN  ExtractMacrosUpTo(loaded_context, IF Len(loaded_context) > 0 THEN 1 ELSE 0)

\* JinjaTemplateInterface._extract_macros_from_config
ExtractMacrosFromConfig(slf, cfg) ==
    LET loaded_context ==
            IF cfg.given
            THEN GetSectionOrEmpty(cfg, <<templater_selector, NameOf(slf), "macros">>)
            ELSE <<>>
    IN  ExtractMacrosUpTo(loaded_context, Len(loaded_context))

\* the globals every engine environment starts with
DefaultGlobals ==
    [n \in {"range", "dict", "lipsum", "cycler", "joiner", "namespace"} |->
        [t |-> "builtin", s |-> n]]

\* a plausible slip: the macros are extracted but never installed
EnvGlobalsMutant(macro_ctx) == DefaultGlobals

\* env.globals.update(ctx)
EnvGlobals(macro_ctx) == DictUpdate(DefaultGlobals, macro_ctx)

(***************************************************************************)
(* template.render(live_context).  A name is looked up in the loop       *)
(* variable, then in the variables the template has assigned, then in the  *)
(* context, then in the environment's globals; a name found nowhere is     *)
(* the engine's Undefined, which prints as nothing, is false, iterates as  *)
(* empty and raises UndefinedError when called.                            *)
(***************************************************************************)
UndefinedVal(n) == [t |-> "undefined", s |-> n]

RootScope(locals) == [locals |-> locals, inloop |-> FALSE, loopvar |-> "", loopval |-> NoValue]

LoopScope(locals, var, val) ==
    [locals |-> locals, inloop |-> TRUE, loopvar |-> var, loopval |-> val]

\* context.resolve: the context's variables shadow the globals
Resolve(n, live_context, globals) ==
    IF n \in DOMAIN live_context THEN live_context[n]
    ELSE IF n \in DOMAIN globals THEN globals[n]
    ELSE UndefinedVal(n)

\* the value of name n in a scope.  Inside a for block a variable the
\* template assigns only later is still missing, whatever the context holds.
Lookup(tree, n, scope, live_context, globals) ==
    IF scope.inloop /\ scope.loopvar = n THEN scope.loopval
    ELSE IF n \in DOMAIN scope.locals THEN scope.locals[n]
    ELSE IF scope.inloop /\ RootKind(tree, n) = "store" THEN UndefinedVal(n)
    ELSE Resolve(n, live_context, globals)

\* bool(value)
Truthy(v) ==
    CASE v.t = "undefined" -> FALSE
      [] v.t = "str"       -> v.s # ""
      [] v.t = "int"       -> v.s # "0"
      [] v.t = "bool"      -> v.s = "True"
      [] v.t = "list"      -> v.s # "[]"
      [] OTHER             -> TRUE

\* str(value), as the output is written
ToText(v) ==
    CASE v.t = "undefined" -> <<>>
      [] v.t = "macro"     -> <<"<", "M", "a", "c", "r", "o", " ", "'">> \o StrChars(v.s)
                              \o <<"'", ">">>
      [] OTHER             -> StrChars(v.s)

Iterable(v) == v.t \in {"undefined", "str", "list"}

\* the items iter(value) yields
Items(v) ==
    CASE v.t = "str"  -> [i \in DOMAIN StrChars(v.s) |-> StrVal(StrChars(v.s)[i])]
      [] v.t = "list" -> IF v.s = "[1, 2]" THEN << IntVal("1"), IntVal("2") >> ELSE <<>>
      [] OTHER        -> <<>>

Ok(v) == [cause |-> NoCause, val |-> v]
Fails(exc, about) == [cause |-> [exc |-> exc, about |-> about], val |-> NoValue]

\* the evaluation of an expression: its value, or the exception it raises
EvalExpr(tree, node, scope, live_context, globals) ==
    LET val(nd) == Lookup(tree, nd.name, scope, live_context, globals) IN
    CASE node.type = "TemplateData" -> Ok([t |-> "data", s |-> ""])
      [] node.type = "Name"  -> Ok(val(node))
      [] node.type = "Const" -> Ok(node.value)
      [] node.type = "Call"  ->
            LET f == val(node.children[1]) IN
            IF f.t = "macro" THEN Ok(StrVal(MacroExpand(f.s, node.children[2].value.s)))
            ELSE IF f.t = "undefined" THEN Fails("UndefinedError", f.s)
            ELSE Fails("TypeError", node.children[1].name)
      [] node.type = "CondExpr" ->
            IF Truthy(val(node.children[1]))
            THEN Ok(val(node.children[2])) ELSE Ok(val(node.children[3]))

\* what an expression of an Output node writes
ExprText(tree, node, scope, live_context, globals) ==
    IF node.type = "TemplateData" THEN node.data
    ELSE ToText(EvalExpr(tree, node, scope, live_context, globals).val)

RECURSIVE RenderOutput(_, _, _, _, _, _)
\* the first n expressions of an Output node: the text written, or the first failure
RenderOutput(tree, exprs, n, scope, live_context, globals) ==
    IF n = 0 THEN [cause |-> NoCause, text |-> <<>>]
    ELSE LET before == RenderOutput(tree, exprs, n - 1, scope, live_context, globals)
             ev     == EvalExpr(tree, exprs[n], scope, live_context, globals)
         IN  IF before.cause # NoCause THEN before
             ELSE IF ev.cause # NoCause THEN [cause |-> ev.cause, text |-> <<>>]
             ELSE [cause |-> NoCause,
                   text |-> before.text
                            \o ExprText(tree, exprs[n], scope, live_context, globals)]

RECURSIVE RenderLoop(_, _, _, _, _, _, _)
\* the first n iterations of a for block
RenderLoop(tree, stmt, items, n, locals, live_context, globals) ==
    IF n = 0 THEN [cause |-> NoCause, text |-> <<>>]
    ELSE LET before == RenderLoop(tree, stmt, items, n - 1, locals, live_context, globals)
             body   == stmt.children[3]
             this   == RenderOutput(tree, body.children, Len(body.children),
                                    LoopScope(locals, stmt.children[1].name, items[n]),
                                    live_context, globals)
         IN  IF before.cause # NoCause THEN before
             ELSE IF this.cause # NoCause THEN this
             ELSE [cause |-> NoCause, text |-> before.text \o this.text]

\* one root-level statement, from the state the statements before it left
RenderStmt(tree, stmt, st, live_context, globals) ==
    IF st.cause # NoCause THEN st
    ELSE CASE stmt.type = "Output" ->
                LET r == RenderOutput(tree, stmt.children, Len(stmt.children),
                                      RootScope(st.locals), live_context, globals)
                IN  [st EXCEPT !.cause = r.cause, !.text = st.text \o r.text]
           [] stmt.type = "Assign" ->
                [st EXCEPT !.locals =
                    DictUpdate(st.locals,
                               [k \in {stmt.children[1].name} |-> stmt.children[2].value])]
           [] stmt.type = "For" ->
                LET it == Lookup(tree, stmt.children[2].name, RootScope(st.locals),
                                 live_context, globals)
                    r  == RenderLoop(tree, stmt, Items(it), Len(Items(it)), st.locals,
                                     live_context, globals)
                IN  IF ~Iterable(it)
                    THEN [st EXCEPT !.cause = [exc |-> "TypeError",
                                               about |-> stmt.children[2].name]]
                    ELSE [st EXCEPT !.cause = r.cause, !.text = st.text \o r.text]

RECURSIVE RenderUpTo(_, _, _, _)
RenderUpTo(tree, n, live_context, globals) ==
    IF n = 0 THEN [locals |-> EmptyDict, text |-> <<>>, cause |-> NoCause]
    ELSE RenderStmt(tree, tree.children[n], RenderUpTo(tree, n - 1, live_context, globals),
                    live_context, globals)

\* template.render(live_context): the rendered text, or the exception raised
Render(tree, live_context, globals) ==
    LET st == RenderUpTo(tree, Len(tree.children), live_context, globals) IN
    [cause |-> st.cause, text |-> IF st.cause = NoCause THEN st.text ELSE <<>>]

(***************************************************************************)
(* JinjaTemplateInterface.process.                                         *)
(***************************************************************************)
NoOutput == [some |-> FALSE, text |-> <<>>]

Raised(exc, line) == [raised |-> exc, line |-> line, out |-> NoOutput, violations |-> <<>>]

Returned(out, violations) == [raised |-> "", line |-> 0, out |-> out, violations |-> violations]

NoResult == Returned(NoOutput, <<>>)

\* the undefined names left once those of the context are removed
UndefinedVariables(tree, live_context, globals) ==
    FindUndeclaredVariables(tree, globals) \ DOMAIN live_context

\* the violations list before rendering
UndefinedViolations(tree, live_context, globals, raw) ==
    LET undefined_variables == UndefinedVariables(tree, live_context, globals) IN
    IF undefined_variables # {} THEN CrawlTree(tree, undefined_variables, raw) ELSE <<>>

\* a plausible slip: a failed render reports the failure alone
ProcessOutcomeMutant(macros, template, ast, crawl_raises, violations, rendered) ==
    IF macros.raised # "" THEN Raised(macros.raised, 220)
    ELSE IF template.raised # "" THEN Raised(template.raised, 224)
    ELSE IF rendered.cause = NoCause
    THEN Returned([some |-> TRUE, text |-> rendered.text], violations)
    ELSE Returned(NoOutput, << FatalViolation(rendered.cause) >>)

\* the control flow of process over what its calls produced: what it
\* returns, or what it raises and at which line
ProcessOutcome(macros, template, ast, crawl_raises, violations, rendered) ==
    IF macros.raised # "" THEN Raised(macros.raised, 220)
    ELSE IF template.raised # "" THEN Raised(template.raised, 224)
    ELSE IF ast.raised # "" THEN Raised("SQLTemplaterError", 235)
    ELSE IF crawl_raises THEN Raised("ValueError", 253)
    ELSE IF rendered.cause = NoCause
    THEN Returned([some |-> TRUE, text |-> rendered.text], violations)
    ELSE Returned(NoOutput, Append(violations, FatalViolation(rendered.cause)))

(***************************************************************************)
(* The registry as a state machine: classes are registered and             *)
(* templaters are selected by name.                                        *)
(***************************************************************************)
NoCall ==
    [tick |-> 0, s |-> NoneArg, kwargs |-> EmptyDict, raised |-> "", inst |-> NoInstance,
     requested |-> "", names |-> <<>>]

NoEq == [valid |-> FALSE, res |-> FALSE]

\* the names a caller asks for
RequestedNames ==
    {NoneArg} \cup {StrArg(v) : v \in {"", "raw", "python", "jinja", "dbt", "nope"}}

\* the keyword options a caller passes
KwargsChoices ==
    { EmptyDict,
      [override_context |-> [foo |-> StrVal("ab")]],
      [override_context |-> EmptyDict, fname |-> StrVal("ab")] }

Idle ==
    /\ self = NoInstance
    /\ config = NoConfig
    /\ in_str = <<>>
    /\ pc = "idle"
    /\ live = EmptyDict
    /\ result = NoResult

NoRegistry ==
    /\ lookup = ImportedRegistry
    /\ regLog = << RawTemplateInterface.id, PythonTemplateInterface.id,
                   JinjaTemplateInterface.id >>
    /\ sel = NoCall
    /\ prev = NoInstance
    /\ eqRes = NoEq

InitRegistry == NoRegistry /\ Idle

Register(cls) ==
    /\ Len(regLog) < 3 + MaxRegisterCalls
    /\ lookup' = RegisterTemplater(lookup, cls)
    /\ regLog' = Append(regLog, cls.id)
    /\ UNCHANGED <<sel, prev, eqRes, self, config, in_str, pc, live, result>>

Select(s, kwargs) ==
    LET r == TemplaterSelector(lookup, s, kwargs) IN
    /\ lookup' = r.registry
    /\ sel' = [tick |-> 1 - sel.tick, s |-> s, kwargs |-> kwargs, raised |-> r.raised,
               inst |-> r.inst, requested |-> r.requested, names |-> r.names]
    /\ UNCHANGED <<regLog, prev, eqRes, self, config, in_str, pc, live, result>>

NextRegistry ==
    \/ \E cls \in Classes : Register(cls)
    \/ \E s \in RequestedNames, kwargs \in KwargsChoices : Select(s, kwargs)

SpecRegistry == InitRegistry /\ [][NextRegistry]_vars

(***************************************************************************)
(* prev == self on two templaters, each built from a class and options.    *)
(***************************************************************************)
Instances == {Construct(cls, kw) : cls \in Classes, kw \in KwargsChoices}

InitEq ==
    /\ lookup = ImportedRegistry
    /\ regLog = << RawTemplateInterface.id, PythonTemplateInterface.id,
                   JinjaTemplateInterface.id >>
    /\ sel = NoCall
    /\ prev \in Instances
    /\ self \in Instances
    /\ eqRes = NoEq
    /\ config = NoConfig
    /\ in_str = <<>>
    /\ pc = "ready"
    /\ live = EmptyDict
    /\ result = NoResult

\* prev == self
Compare ==
    /\ pc = "ready"
    /\ eqRes' = [valid |-> TRUE, res |-> RichCompareEq(prev, self)]
    /\ pc' = "done"
    /\ UNCHANGED <<lookup, regLog, sel, prev, self, config, in_str, live, result>>

NextEq == Compare

SpecEq == InitEq /\ [][NextEq]_vars

(***************************************************************************)
(* get_context on a templater and a config.                                *)
(***************************************************************************)
ContextKeys == {"foo", "test_value"}

\* what a config file holds: strings
ConfigValues == {StrVal("3"), StrVal("ab"), StrVal("'ab'")}

\* what a caller passes as overrides: any value
OverrideValues == {StrVal("3"), IntVal("3"), StrVal("ab")}

ContextPath(n) == <<templater_selector, n, "context">>
MacrosPath(n) == <<templater_selector, n, "macros">>

ContextInstances ==
    {Construct(cls, [override_context |-> o]) :
        cls \in {PythonTemplateInterface, JinjaTemplateInterface},
        o \in DictsOver(ContextKeys, OverrideValues)}

ContextConfigs ==
    {NoConfig, FluffConfig(EmptyDict)}
    \cup {FluffConfig(ContextPath(n) :> d) :
            n \in {"python", "jinja"}, d \in DictsOver(ContextKeys, ConfigValues)}

InitContext ==
    /\ NoRegistry
    /\ self \in ContextInstances
    /\ config \in ContextConfigs
    /\ in_str = <<>>
    /\ pc = "ready"
    /\ live = EmptyDict
    /\ result = NoResult

GetContext ==
    /\ pc = "ready"
    /\ live' = get_context(self, config)
    /\ pc' = "done"
    /\ UNCHANGED <<lookup, regLog, sel, prev, eqRes, self, config, in_str, result>>

NextContext == GetContext

SpecContext == InitContext /\ [][NextContext]_vars

(***************************************************************************)
(* process on a jinja templater, a template and a config.                  *)
(***************************************************************************)
ChunkMenu ==
    { Chunk("nl", "", "", ""),
      Chunk("lit", "", "", ""),
      Chunk("var", "foo", "", ""),
      Chunk("var", "x", "", ""),
      Chunk("var", "m", "", ""),
      Chunk("call", "m", "", ""),
      Chunk("call", "foo", "", ""),
      Chunk("cond", "foo", "x", "m"),
      Chunk("set", "x", "", ""),
      Chunk("for", "x", "foo", "x"),
      Chunk("for", "x", "m", "foo"),
      Chunk("bad", "", "", "") }

Templates == UNION {[1..n -> ChunkMenu] : n \in 0..MaxChunks}

JinjaContextSections ==
    { [foo |-> StrVal("ab")], [foo |-> StrVal("3")], [m |-> StrVal("ab")] }

JinjaMacroSections == { <<"setfoo", "greet">>, <<"broken">> }

JinjaConfigs ==
    {NoConfig, FluffConfig(EmptyDict)}
    \cup {FluffConfig(ContextPath("jinja") :> d) : d \in JinjaContextSections}
    \cup {FluffConfig(MacrosPath("jinja") :> ms) : ms \in JinjaMacroSections}
    \cup {FluffConfig(ContextPath("jinja") :> d @@ MacrosPath("jinja") :> ms) :
            d \in JinjaContextSections, ms \in JinjaMacroSections}

JinjaInstances ==
    {Construct(JinjaTemplateInterface, kw) :
        kw \in {EmptyDict, [override_context |-> [x |-> StrVal("ab")]]}}

InitJinja ==
    /\ NoRegistry
    /\ self \in JinjaInstances
    /\ config \in JinjaConfigs
    /\ in_str \in Templates
    /\ pc = "ready"
    /\ live = EmptyDict
    /\ result = NoResult

\* process(in_str, fname, config) on self: each call of the method binds its value
Process ==
    /\ pc = "ready"
    /\ \E macros \in {ExtractMacrosFromConfig(self, config)} :
       \E globals \in {EnvGlobals(macros.context)} :
       \E template \in {Parse(in_str)} :
       \E live_context \in {get_context(self, config)} :
       \E ast \in {Parse(in_str)} :
       \E raw \in {SourceText(in_str)} :
       \E undefined_variables \in {UndefinedVariables(ast.tree, live_context, globals)} :
       \E crawl_raises \in {undefined_variables # {}
                               /\ CrawlRaises(ast.tree, undefined_variables, raw)} :
       \E violations \in {UndefinedViolations(ast.tree, live_context, globals, raw)} :
       \E rendered \in {Render(template.tree, live_context, globals)} :
            result' = ProcessOutcome(macros, template, ast, crawl_raises, violations, rendered)
    /\ pc' = "done"
    /\ UNCHANGED <<lookup, regLog, sel, prev, eqRes, self, config, in_str, live>>

NextJinja == Process

SpecJinja == InitJinja /\ [][NextJinja]_vars

(***************************************************************************)
(* Properties.  What the calls of process produce in the current state:    *)
(***************************************************************************)
CurMacros  == ExtractMacrosFromConfig(self, config)
CurGlobals == EnvGlobals(CurMacros.context)
CurTree    == Parse(in_str).tree
CurContext == get_context(self, config)
CurRaw     == SourceText(in_str)

\* process has returned
Returns == pc = "done" /\ result.raised = ""

IsUndefinedViolation(v) == v.kind = "undefined"

\* the undefined-variable violations process returned
Undefs == SelectSeq(result.violations, IsUndefinedViolation)

\* the names process treats as undefined
CurUndefined == UndefinedVariables(CurTree, CurContext, CurGlobals)

\* the Name nodes of the tree whose identifier is undefined, as the traversal meets them
MatchedIn(tree, undefined) ==
    LET IsUndefinedLeaf(leaf) == leaf.name \in undefined
    IN  SelectSeq(NameLeaves(tree), IsUndefinedLeaf)

Matched == MatchedIn(CurTree, CurUndefined)

\* the template strings of the macros section process reads for self
MacroSection ==
    IF config.given THEN GetSectionOrEmpty(config, MacrosPath(NameOf(self))) ELSE <<>>

\* every template string of the macros section parses
MacroSectionOk == \A v \in Range(MacroSection) : MacroTemplateModule(v).raised = ""

\* the names of the macros those template strings define
ConfiguredMacros ==
    UNION { {k \in DOMAIN MacroTemplateModule(v).exports :
                MacroTemplateModule(v).exports[k].t = "macro"} : v \in Range(MacroSection) }

\* C1: a key held by both the configuration's context section and the
\* override mapping is mapped to the override value as it was given, and
\* no override value undergoes type inference.
OverrideIsVerbatim ==
    pc = "done" =>
        \A k \in DOMAIN self.attrs.override_context :
            live[k] = self.attrs.override_context[k]

\* C2: when the input text does not parse as a template, process raises
\* SQLTemplaterError and nothing else.
ParseFailureRaisesTemplaterError ==
    (pc = "done" /\ MacroSectionOk /\ ~WellFormed(in_str)) =>
        result.raised = "SQLTemplaterError"

\* C3: a failed render is not propagated: process returns no text and the
\* violations collected so far, in order, followed by one fatal violation
\* without a position that names the cause; a successful render returns
\* the rendered text and exactly the violations of the analysis.
RenderFailureIsCaptured ==
    (pc = "done" /\ MacroSectionOk /\ WellFormed(in_str)) =>
        LET tree         == CurTree
            live_context == CurContext
            globals      == CurGlobals
            rendered     == Render(tree, live_context, globals)
            collected    == UndefinedViolations(tree, live_context, globals, CurRaw)
            n            == Len(result.violations)
        IN  /\ result.raised = ""
            /\ \A i \in 1..Len(collected) : collected[i].kind = "undefined"
            /\ rendered.cause # NoCause =>
                /\ ~result.out.some
                /\ n = Len(collected) + 1
                /\ SubSeq(result.violations, 1, n - 1) = collected
                /\ result.violations[n].kind = "fatal"
                /\ result.violations[n].pos = <<>>
                /\ result.violations[n].cause = rendered.cause
            /\ rendered.cause = NoCause =>
                /\ result.out = [some |-> TRUE, text |-> rendered.text]
                /\ result.violations = collected

RenderFailureWitness ==
    /\ Returns
    /\ ~result.out.some
    /\ Len(result.violations) >= 2
    /\ result.violations[1].kind = "undefined"

\* the template calls n once and holds nothing else but template data
CallTemplate(n) ==
    \E i \in DOMAIN in_str :
        /\ in_str[i] = Chunk("call", n, "", "")
        /\ \A j \in DOMAIN in_str \ {i} : in_str[j].k \in {"nl", "lit"}

RECURSIVE ExpandedUpTo(_, _)
\* the text of chunks 1..k with every call replaced by the macro's expansion
ExpandedUpTo(chunks, k) ==
    IF k = 0 THEN <<>>
    ELSE ExpandedUpTo(chunks, k - 1)
         \o (IF chunks[k].k = "call" THEN StrChars(MacroExpand(chunks[k].a, "q"))
             ELSE ChunkText(chunks[k]))

EndsFatal ==
    /\ ~result.out.some
    /\ result.violations # <<>>
    /\ result.violations[Len(result.violations)].kind = "fatal"

\* C4 as stated: a template that calls a macro the configuration defines
\* renders to the macro's expansion; when nothing defines the name, the
\* render fails, which is captured as a fatal violation with no text.
ConfiguredMacroRenders ==
    \A n \in Names :
        (pc = "done" /\ MacroSectionOk /\ CallTemplate(n)) =>
            /\ result.raised = ""
            /\ n \in ConfiguredMacros =>
                /\ result.out = [some |-> TRUE, text |-> ExpandedUpTo(in_str, Len(in_str))]
                /\ \A i \in DOMAIN result.violations : result.violations[i].kind # "fatal"
            /\ (n \notin ConfiguredMacros /\ n \notin DOMAIN CurContext) => EndsFatal

\* C4, amended: the same, for a macro whose name is not also a key of the
\* built context (a context variable shadows a global of the same name).
UnshadowedMacroRenders ==
    \A n \in Names :
        (pc = "done" /\ MacroSectionOk /\ CallTemplate(n)) =>
            /\ result.raised = ""
            /\ (n \in ConfiguredMacros /\ n \notin DOMAIN CurContext) =>
                /\ result.out = [some |-> TRUE, text |-> ExpandedUpTo(in_str, Len(in_str))]
                /\ \A i \in DOMAIN result.violations : result.violations[i].kind # "fatal"
            /\ (n \notin ConfiguredMacros /\ n \notin DOMAIN CurContext) => EndsFatal

MacroRendersWitness ==
    /\ Returns
    /\ in_str = << Chunk("call", "m", "", "") >>
    /\ "m" \in ConfiguredMacros
    /\ result.out = [some |-> TRUE, text |-> <<"h", "i", " ", "q">>]

\* C5: the line and column of every undefined-variable violation
\* are those of the first character of that occurrence of the identifier,
\* and the offset is the length of the lines before it, line breaks
\* included, plus the column.
PositionPointsAtOccurrence ==
    Returns =>
        LET undefs  == Undefs
            matched == Matched
            lines   == SplitLines(CurRaw)
        IN  /\ Len(undefs) = Len(matched)
            /\ \A i \in DOMAIN undefs :
                LET p == undefs[i].pos[1] IN
                /\ p.line = matched[i].lineno
                /\ p.col = matched[i].col
                /\ p.charpos = SumLens(lines, p.line - 1) + p.col

\* the template itself declares n: as the target of a set or of a for block
LocallyDeclared(n) ==
    \E i \in DOMAIN in_str : in_str[i].k \in {"set", "for"} /\ in_str[i].a = n

\* C6: a name of the built context, or a name the template declares
\* locally, is in no undefined-variable violation; a context name written
\* as {{ n }} renders as its value.
ContextAndLocalNamesAreNotReported ==
    Returns =>
        LET undefs       == Undefs
            live_context == CurContext
        IN  /\ \A i \in DOMAIN undefs :
                /\ undefs[i].name \notin DOMAIN live_context
                /\ ~LocallyDeclared(undefs[i].name)
            /\ \A n \in Names :
                (in_str = << Chunk("var", n, "", "") >> /\ n \in DOMAIN live_context) =>
                    result.out = [some |-> TRUE, text |-> ToText(live_context[n])]

\* whether leaf a stands before leaf b in the source
Before(a, b) == a.lineno < b.lineno \/ (a.lineno = b.lineno /\ a.col < b.col)

\* C9 as stated: one violation for every Name node with an undefined
\* identifier, in the order of the occurrences in the source.
ViolationsInDocumentOrder ==
    Returns =>
        LET undefs  == Undefs
            matched == Matched
        IN  /\ Len(undefs) = Len(matched)
            /\ \A i \in DOMAIN undefs : undefs[i].name = matched[i].name
            /\ \A i, j \in DOMAIN matched : i < j => Before(matched[i], matched[j])

\* C9, amended: one violation for every Name node with an undefined
\* identifier, none lost after the first, in the order in which the
\* traversal of the syntax tree meets the nodes.
ViolationsInTreeOrder ==
    Returns =>
        LET undefs    == Undefs
            tree      == CurTree
            undefined == CurUndefined
            matched   == MatchedIn(tree, undefined)
            leaves    == NameLeaves(tree)
        IN  /\ Len(undefs) = Len(matched)
            /\ \A i \in DOMAIN undefs :
                /\ undefs[i].name = matched[i].name
                /\ undefs[i].pos[1].line = matched[i].lineno
            /\ \A n \in undefined :
                Cardinality({i \in DOMAIN undefs : undefs[i].name = n})
                    = Cardinality({k \in DOMAIN leaves : leaves[k].name = n})
            /\ \A i \in DOMAIN undefs : undefs[i].name \in undefined

RepeatedNameWitness ==
    /\ Returns
    /\ Len(Undefs) >= 2
    /\ Undefs[1].name = Undefs[2].name

\* C10: a macro of the configuration is never reported as an undefined
\* variable, and a template that uses only context variables and macros
\* of the configuration and renders gets no violation.
ConfiguredMacrosAreNotReported ==
    pc = "done" =>
        LET undefs == Undefs
            macros == IF MacroSectionOk THEN ConfiguredMacros ELSE {}
            known  == (DOMAIN CurContext) \cup macros
        IN  /\ \A i \in DOMAIN undefs : undefs[i].name \notin macros
            /\ ( /\ result.raised = ""
                 /\ result.out.some
                 /\ \A leaf \in Range(NameLeaves(CurTree)) : leaf.name \in known )
               => result.violations = <<>>

MacroNotReportedWitness ==
    /\ Returns
    /\ result.out.some
    /\ result.violations = <<>>
    /\ \E i \in DOMAIN in_str : in_str[i] = Chunk("call", "m", "", "")
    /\ \E i \in DOMAIN in_str : in_str[i] = Chunk("var", "foo", "", "")

\* the classes registered under name n so far, by position in the history
RegisteredAt(n) == {i \in DOMAIN regLog : ClassOf(regLog[i]).name = n}

\* C7: templater_selector returns an instance of the class registered last
\* under the name, built from the keyword options; no name or an empty one
\* stands for 'jinja'; it raises ValueError, listing every registered name,
\* exactly when the name is not registered; it leaves the registry alone.
SelectorContract ==
    [][ sel'.tick # sel.tick =>
            LET n  == IF sel'.s.isNone \/ sel'.s.v = "" THEN "jinja" ELSE sel'.s.v
                at == RegisteredAt(n)
            IN  /\ lookup' = lookup
                /\ regLog' = regLog
                /\ sel'.raised = (IF at = {} THEN "ValueError" ELSE "")
                /\ at # {} =>
                    LET cls == ClassOf(regLog[CHOOSE i \in at : \A j \in at : j <= i]) IN
                    /\ sel'.inst.cls = cls.id
                    /\ sel'.inst = Construct(cls, sel'.kwargs)
                    /\ ("PythonTemplateInterface" \in Range(cls.mro)
                        /\ "override_context" \in DOMAIN sel'.kwargs)
                       => sel'.inst.attrs.override_context = sel'.kwargs["override_context"]
                /\ at = {} =>
                    /\ sel'.requested = n
                    /\ Range(sel'.names) = {ClassOf(regLog[i]).name : i \in DOMAIN regLog}
                    /\ Len(sel'.names) = Cardinality(Range(sel'.names))
      ]_vars

SelectorWitness ==
    /\ sel.raised = ""
    /\ sel.s = StrArg("raw")
    /\ sel.inst.cls = "MyRawTemplater"

\* C8: two templaters of the raw, python and jinja classes compare equal
\* exactly when they are of the same class, whatever their options.
EqualIffSameClass ==
    (eqRes.valid /\ {prev.cls, self.cls} \subseteq {c.id : c \in BuiltinClasses}) =>
        (eqRes.res <=> prev.cls = self.cls)

DerivedIsNotEqualWitness ==
    /\ eqRes.valid
    /\ prev.cls = RawTemplateInterface.id
    /\ self.cls = JinjaTemplateInterface.id
    /\ prev.attrs # self.attrs
    /\ ~eqRes.res

=============================================================================
